---- MODULE Spec2Model ----
(***************************************************************************)
(* Model of the move-classification pipeline of ChessVision:               *)
(*   src/ChessReview/main.py   analyze_pgn_with_stockfish  (PGN pipeline)  *)
(*   src/ChessReview2/main.py  analyze_json_game_with_stockfish (JSON)     *)
(* The chess rules and the evaluation engine are collaborators of the      *)
(* code: the board is a small deterministic toy board with the same        *)
(* interface (push, turn, fullmove number, FEN, piece counts), and every   *)
(* engine reply is an input of the step that asks for it.                  *)
(***************************************************************************)
EXTENDS Integers, Sequences, FiniteSets, TLC

VARIABLES
  mode,            \* "pgn" or "json": which of the two pipelines runs
  names,           \* the game's player names, <<White, Black>>
  opening_book,    \* fingerprint -> expected move (uci), as loaded
  board,           \* the board the analysis loop pushes moves on
  in_opening,      \* the loop's in_opening flag
  move_number,     \* the number the next classified move record gets
  move_analysis,   \* result["move_analysis"]
  classifications, \* player -> phase -> list of classifications
  phase_data,      \* phase -> list of classifications
  phase_analysis,  \* result["phase_analysis"]
  player_summaries,\* result["player_summaries"]
  locals,          \* the loop body's local variables after its last run
  pc               \* "loop", "done"; "phase"/"phased", "rate"/"rated" and
                   \* "load"/"loaded" in the specifications that apply one
                   \* function

vars == <<mode, names, opening_book, board, in_opening, move_number,
          move_analysis, classifications, phase_data, phase_analysis,
          player_summaries, locals, pc>>

------------------------------------------------------------------------------
(* Enumerations and analysis parameters                                     *)

GamePhase == <<"opening", "middlegame", "endgame">>

Classification == <<"brilliant", "great", "best", "excellent", "good",
                    "inaccuracy", "mistake", "miss", "blunder", "book",
                    "forced">>

\* Python's None where a classification is expected
NoClassification == "none"

centipawn_classifications == <<"best", "excellent", "good", "inaccuracy",
                               "miss", "mistake", "blunder">>

FORCED_WIN_THRESHOLD == 500
MISS_CENTIPAWN_LOSS == 300
MISS_MATE_THRESHOLD == 3
ENDGAME_MATERIAL_THRESHOLD == 24
QUEEN_VALUE == 9
\* score(mate_score=10000)
MATE_SCORE == 10000
\* is_book_move(..., max_depth=8)
MAX_DEPTH == 8

Range(s) == {s[i] : i \in DOMAIN s}
Abs(x) == IF x < 0 THEN -x ELSE x
Max(a, b) == IF a >= b THEN a ELSE b

------------------------------------------------------------------------------
(* Engine scores (chess.engine.Score): Cp(v), Mate(v), and MateGiven, the   *)
(* negation of Mate(0).  The engine reports a score relative to the side    *)
(* to move.                                                                 *)

Cp(v) == [kind |-> "cp", v |-> v]
Mate(v) == [kind |-> "mate", v |-> v]
MateGiven == [kind |-> "mategiven", v |-> 0]

\* Score.__neg__
NegScore(s) ==
  IF s.kind = "cp" THEN Cp(-s.v)
  ELSE IF s.kind = "mategiven" THEN Mate(0)
  ELSE IF s.v = 0 THEN MateGiven
  ELSE Mate(-s.v)

\* PovScore.white(): the score from White's point of view
WhiteScore(relative, turn) ==
  IF turn = "w" THEN relative ELSE NegScore(relative)

\* Score.score(mate_score=...): a number for every score
ScoreValue(s, mate_score) ==
  IF s.kind = "cp" THEN s.v
  ELSE IF s.kind = "mategiven" THEN mate_score
  ELSE IF s.v > 0 THEN mate_score - s.v
  ELSE -mate_score - s.v

\* `x or 0`
OrZero(x) == IF x = 0 THEN 0 ELSE x

\* pre_info["score"].white().score(mate_score=10000) or 0
WhiteEval(relative, turn) ==
  OrZero(ScoreValue(WhiteScore(relative, turn), MATE_SCORE))

\* PovScore.is_mate()
IsMate(relative) == relative.kind # "cp"

------------------------------------------------------------------------------
(* Moves and move tokens.  A move is a number of Moves; NoMove is Python's  *)
(* None where a move is expected.  A token is the text of a move: the same  *)
(* move has a SAN text ("Nf3") and a coordinate text ("g1f3"), which is     *)
(* also what Move.uci() prints and which push_san accepts as well.          *)

Moves == 1 .. 3
NoMove == 0

San(m) == [nota |-> "san", mv |-> m]
Uci(m) == [nota |-> "uci", mv |-> m]
\* a token no position accepts
BadToken == [nota |-> "bad", mv |-> 0]
\* a move-number token such as "1."
NumToken == [nota |-> "num", mv |-> 0]
\* Python's None where a string is expected
NoneText == [nota |-> "none", mv |-> 0]

\* truth value of an optional string
Truthy(text) == text.nota # "none"

------------------------------------------------------------------------------
(* The toy board.  A position is a number of Positions; move m leads to     *)
(* position m and is legal unless the board already is there.  Every        *)
(* position has fixed piece counts.                                         *)

Positions == 0 .. 3

PieceTypes == <<"pawn", "knight", "bishop", "rook", "queen", "king">>

Count(p, n, b, r, q) ==
  [pawn |-> p, knight |-> n, bishop |-> b, rook |-> r, queen |-> q, king |-> 1]

\* position 0: the starting array (78, two queens)
\* position 1: the starting material, other squares
\* position 2: no queens, 24 + 24 = 48
\* position 3: one queen, 13 + 12 = 25
PiecesAt(pos) ==
  IF pos \in {0, 1} THEN [w |-> Count(8, 2, 2, 2, 1), b |-> Count(8, 2, 2, 2, 1)]
  ELSE IF pos = 2 THEN [w |-> Count(8, 1, 1, 2, 0), b |-> Count(8, 1, 1, 2, 0)]
  ELSE [w |-> Count(4, 0, 0, 0, 1), b |-> Count(2, 0, 0, 2, 0)]

MakeBoard(pos, turn, fullmove) ==
  [pos |-> pos, pieces |-> PiecesAt(pos), turn |-> turn, fullmove |-> fullmove]

\* chess.Board()
StartBoard == MakeBoard(0, "w", 1)

IsLegal(b, m) == m \in Moves /\ m # b.pos

\* Board.push: the side to move changes, the fullmove number grows after
\* Black's move
Push(b, m) ==
  MakeBoard(m, IF b.turn = "w" THEN "b" ELSE "w",
            IF b.turn = "b" THEN b.fullmove + 1 ELSE b.fullmove)

\* Board.parse_san: the move a token names, NoMove for a ValueError
ParseSan(b, token) ==
  IF token.nota \in {"san", "uci"} /\ IsLegal(b, token.mv) THEN token.mv
  ELSE NoMove

\* Board.fen(): placement, side to move, castling, en passant, halfmove
\* clock, fullmove number
Fen(b) == <<b.pos, b.turn, "-", "-", 0, b.fullmove>>

\* " ".join(board.fen().split()[:4])
Fingerprint(b) == SubSeq(Fen(b), 1, 4)

------------------------------------------------------------------------------
(* detect_game_phase                                                        *)

PieceValue(piece_type) ==
  IF piece_type = "pawn" THEN 1
  ELSE IF piece_type = "knight" THEN 3
  ELSE IF piece_type = "bishop" THEN 3
  ELSE IF piece_type = "rook" THEN 5
  ELSE QUEEN_VALUE

\* the two nested loops: (colour, piece type) pairs in the order visited,
\* kings skipped
RECURSIVE MaterialLoop(_, _, _, _)
MaterialLoop(b, pairs, total_material, queens) ==
  IF pairs = <<>> THEN [total_material |-> total_material, queens |-> queens]
  ELSE LET color == Head(pairs)[1]
           piece_type == Head(pairs)[2]
           count == b.pieces[color][piece_type]
       IN IF piece_type = "king"
          THEN MaterialLoop(b, Tail(pairs), total_material, queens)
          ELSE MaterialLoop(b, Tail(pairs),
                            total_material + count * PieceValue(piece_type),
                            IF piece_type = "queen" THEN queens + count
                            ELSE queens)

ColorPiecePairs ==
  [i \in 1 .. 12 |-> <<IF i <= 6 THEN "w" ELSE "b",
                       PieceTypes[((i - 1) % 6) + 1]>>]

\* detect_game_phase with < for <= in both endgame conditions
MutDetectPhaseStrict(b, in_op) ==
  IF in_op THEN "opening"
  ELSE LET m == MaterialLoop(b, ColorPiecePairs, 0, 0)
       IN IF \/ m.total_material < ENDGAME_MATERIAL_THRESHOLD
             \/ m.queens = 0 /\ m.total_material < ENDGAME_MATERIAL_THRESHOLD * 2
          THEN "endgame" ELSE "middlegame"

detect_game_phase(b, in_op) ==
  IF in_op THEN "opening"
  ELSE LET m == MaterialLoop(b, ColorPiecePairs, 0, 0)
           endgame_conditions ==
             <<m.total_material <= ENDGAME_MATERIAL_THRESHOLD,
               m.queens = 0
                 /\ m.total_material <= ENDGAME_MATERIAL_THRESHOLD * 2>>
       IN IF \E i \in DOMAIN endgame_conditions : endgame_conditions[i]
          THEN "endgame" ELSE "middlegame"

------------------------------------------------------------------------------
(* get_evaluation_loss_threshold.  The thresholds are decimals with five    *)
(* places at most; the model keeps them exact, as integers in units of      *)
(* 1/THRESHOLD_SCALE centipawn (0.0001 is 2, 0.00025 is 5, 3.7143 is        *)
(* 74286).  A threshold is [inf, v]: float("inf"), or v units.  For whole    *)
(* losses the exact comparison and the floating-point one agree at every    *)
(* |prev_eval| up to 12000.                                                 *)

THRESHOLD_SCALE == 20000

Finite(v) == [inf |-> FALSE, v |-> v]
Infinite == [inf |-> TRUE, v |-> 0]

get_evaluation_loss_threshold(classif, prev_eval) ==
  LET x == Abs(prev_eval)
  IN IF classif = "best"
       THEN Finite(Max(2 * x * x + 472 * x - 74286, 0))
     ELSE IF classif = "excellent"
       THEN Finite(Max(4 * x * x + 2462 * x + 550910, 0))
     ELSE IF classif = "good"
       THEN Finite(Max(4 * x * x + 5286 * x + 1210910, 0))
     ELSE IF classif = "inaccuracy"
       THEN Finite(Max(4 * x * x + 7248 * x + 2161818, 0))
     ELSE IF classif = "miss"
       THEN Finite(Max(5 * x * x + 7651 * x + 3339082, 0))
     ELSE IF classif = "mistake"
       THEN Finite(Max(6 * x * x + 8054 * x + 4516364, 0))
     ELSE Infinite

\* LossWithin with < for <=
MutLossWithinStrict(eval_loss, threshold) ==
  threshold.inf \/ eval_loss * THRESHOLD_SCALE < threshold.v

\* eval_loss <= threshold, eval_loss a whole number of centipawns
LossWithin(eval_loss, threshold) ==
  threshold.inf \/ eval_loss * THRESHOLD_SCALE <= threshold.v

------------------------------------------------------------------------------
(* load_opening_book and is_book_move.  A book source is the list of the    *)
(* rows' move texts, each a list of tokens.  The book is a function from    *)
(* fingerprints to uci texts.                                               *)

EmptyBook == [k \in {} |-> NoneText]

\* opening_book[fen] = chess_move.uci()
BookPut(book, key, text) ==
  [k \in (DOMAIN book) \cup {key} |-> IF k = key THEN text ELSE book[k]]

\* opening_book.get(fen)
BookGet(book, key) == IF key \in DOMAIN book THEN book[key] ELSE NoneText

\* ReplayLine with continue for break: a token that cannot be applied is
\* skipped and the rest of the line is replayed
RECURSIVE MutReplayLineSkipsToken(_, _, _)
MutReplayLineSkipsToken(book, b, tokens) ==
  IF tokens = <<>> THEN book
  ELSE LET move == Head(tokens)
       IN IF move.nota = "num" \/ ParseSan(b, move) = NoMove
          THEN MutReplayLineSkipsToken(book, b, Tail(tokens))
          ELSE LET chess_move == ParseSan(b, move)
                   b2 == Push(b, chess_move)
               IN MutReplayLineSkipsToken(
                    BookPut(book, Fingerprint(b2), Uci(chess_move)),
                    b2, Tail(tokens))

\* the inner loop over one row's tokens
RECURSIVE ReplayLine(_, _, _)
ReplayLine(book, b, tokens) ==
  IF tokens = <<>> THEN book
  ELSE LET move == Head(tokens)
       IN IF move.nota = "num" THEN ReplayLine(book, b, Tail(tokens))
          ELSE IF ParseSan(b, move) = NoMove THEN book
          ELSE LET chess_move == ParseSan(b, move)
                   b2 == Push(b, chess_move)
               IN ReplayLine(BookPut(book, Fingerprint(b2), Uci(chess_move)),
                             b2, Tail(tokens))

\* the loop over the rows, each replayed on a fresh board
RECURSIVE LoadRows(_, _)
LoadRows(book, rows) ==
  IF rows = <<>> THEN book
  ELSE LoadRows(ReplayLine(book, StartBoard, Head(rows)), Tail(rows))

load_opening_book(rows) == LoadRows(EmptyBook, rows)

\* is_book_move without the depth test
MutIsBookMoveNoDepth(b, book, max_depth) == BookGet(book, Fingerprint(b))

is_book_move(b, book, max_depth) ==
  IF b.fullmove > max_depth THEN NoneText
  ELSE BookGet(book, Fingerprint(b))

------------------------------------------------------------------------------
(* The classification chain of the loop body                                *)

\* for classif in centipawn_classifications: ... break
RECURSIVE CentipawnLoop(_, _, _)
CentipawnLoop(candidates, pre_eval, eval_loss) ==
  IF candidates = <<>> THEN NoClassification
  ELSE IF LossWithin(eval_loss,
                     get_evaluation_loss_threshold(Head(candidates), pre_eval))
       THEN Head(candidates)
       ELSE CentipawnLoop(Tail(candidates), pre_eval, eval_loss)

\* "Initial classification": Book for a book move, else the first candidate
\* whose threshold holds the loss, else Blunder
InitialClassification(book_move, pre_eval, eval_loss) ==
  LET c0 == IF Truthy(book_move) THEN "book" ELSE NoClassification
      c1 == IF c0 = NoClassification
            THEN CentipawnLoop(centipawn_classifications, pre_eval, eval_loss)
            ELSE c0
  IN IF c1 = NoClassification THEN "blunder" ELSE c1

\* is_winning
IsWinning(pre_eval) == Abs(pre_eval) >= FORCED_WIN_THRESHOLD

\* is_forced_win: relative.mate() is read only when is_mate() holds
IsForcedWin(pre_score) ==
  IsMate(pre_score) /\ pre_score.v <= MISS_MATE_THRESHOLD

\* the comparison of the played move with the engine's best move:
\*   PGN   move != best_move                        (two moves)
\*   JSON  token != (best_move.uci() if best_move else None)   (two texts)
MoveDiffers(md, token, move, best_move) ==
  IF md = "pgn" THEN move # best_move
  ELSE token # (IF best_move # NoMove THEN Uci(best_move) ELSE NoneText)

\* MissedWinFires with > for >= on the loss
MutMissedWinFiresStrict(pre_eval, eval_loss, pre_score, differs) ==
  /\ IsWinning(pre_eval)
  /\ differs
  /\ (eval_loss > MISS_CENTIPAWN_LOSS \/ IsForcedWin(pre_score))

\* the condition of "Check for missed opportunities"
MissedWinFires(pre_eval, eval_loss, pre_score, differs) ==
  /\ IsWinning(pre_eval)
  /\ differs
  /\ (eval_loss >= MISS_CENTIPAWN_LOSS \/ IsForcedWin(pre_score))

\* "Check for brilliant moves"
BrilliancyUpgrade(classification, pre_eval, post_eval) ==
  IF classification = "best"
  THEN IF pre_eval < -150 /\ post_eval >= 150 THEN "great"
       ELSE IF pre_eval < -300 /\ post_eval >= 300 THEN "brilliant"
       ELSE classification
  ELSE classification

\* NextInOpening that sets the flag again on a book move
MutNextInOpeningFollowsBook(in_op, book_move) == Truthy(book_move)

\* if not book_move and in_opening: in_opening = False
NextInOpening(in_op, book_move) ==
  IF ~Truthy(book_move) /\ in_op THEN FALSE ELSE in_op

\* LoopBody with the phase detected after the in_opening flag is updated
MutLoopBodyPhaseAfterFlag(md, token, move, pre_turn, b2, in_op, book, pre_info, post_info) ==
  LET pre_eval == WhiteEval(pre_info.score, pre_turn)
      best_move == pre_info.pv
      post_eval == WhiteEval(post_info.score, b2.turn)
      book_move == is_book_move(b2, book, MAX_DEPTH)
      current_phase == detect_game_phase(b2, NextInOpening(in_op, book_move))
      eval_loss == Abs(pre_eval - post_eval)
      cls2 == InitialClassification(book_move, pre_eval, eval_loss)
      differs == MoveDiffers(md, token, move, best_move)
      miss_override ==
        MissedWinFires(pre_eval, eval_loss, pre_info.score, differs)
      cls3 == IF miss_override THEN "miss" ELSE cls2
      classification == BrilliancyUpgrade(cls3, pre_eval, post_eval)
  IN [stage |-> "classified", token |-> token, move |-> move,
      pre_score |-> pre_info.score, best_move |-> best_move,
      pre_eval |-> pre_eval, post_eval |-> post_eval,
      book_move |-> book_move, current_phase |-> current_phase,
      eval_loss |-> eval_loss, cls2 |-> cls2,
      miss_override |-> miss_override, cls3 |-> cls3,
      classification |-> classification,
      player |-> IF b2.turn = "b" THEN "white" ELSE "black"]

\* The loop body from the second engine query to the brilliancy check, on
\* the board b2 the move has been pushed on.  The result is the body's
\* local variables; cls2 and cls3 are the values `classification` has after
\* the initial classification and after the missed-win check, miss_override
\* tells whether that check's branch was taken.
LoopBody(md, token, move, pre_turn, b2, in_op, book, pre_info, post_info) ==
  LET pre_eval == WhiteEval(pre_info.score, pre_turn)
      best_move == pre_info.pv
      post_eval == WhiteEval(post_info.score, b2.turn)
      book_move == is_book_move(b2, book, MAX_DEPTH)
      current_phase == detect_game_phase(b2, in_op)
      eval_loss == Abs(pre_eval - post_eval)
      cls2 == InitialClassification(book_move, pre_eval, eval_loss)
      differs == MoveDiffers(md, token, move, best_move)
      miss_override ==
        MissedWinFires(pre_eval, eval_loss, pre_info.score, differs)
      cls3 == IF miss_override THEN "miss" ELSE cls2
      classification == BrilliancyUpgrade(cls3, pre_eval, post_eval)
  IN [stage |-> "classified", token |-> token, move |-> move,
      pre_score |-> pre_info.score, best_move |-> best_move,
      pre_eval |-> pre_eval, post_eval |-> post_eval,
      book_move |-> book_move, current_phase |-> current_phase,
      eval_loss |-> eval_loss, cls2 |-> cls2,
      miss_override |-> miss_override, cls3 |-> cls3,
      classification |-> classification,
      player |-> IF b2.turn = "b" THEN "white" ELSE "black"]

\* the local variables before the first run of the loop body
NoLocals ==
  [stage |-> "none", token |-> NoneText, move |-> NoMove,
   pre_score |-> Cp(0), best_move |-> NoMove, pre_eval |-> 0, post_eval |-> 0,
   book_move |-> NoneText, current_phase |-> "opening", eval_loss |-> 0,
   cls2 |-> NoClassification, miss_override |-> FALSE,
   cls3 |-> NoClassification,
   classification |-> NoClassification, player |-> "white"]

------------------------------------------------------------------------------
(* Floating-point numbers.  get_phase_rating adds and divides Python        *)
(* floats (IEEE 754 doubles, round to nearest, ties to even).  A double     *)
(* x >= 0 is kept exactly, as the integer x * 2^59 in four limbs of 21      *)
(* bits, lowest first.  Every double from 2^-7 up to 2^14 has this form,    *)
(* which covers the values, sums, averages and thresholds of lists of up    *)
(* to 15 classifications.                                                   *)

LIMB_BASE == 2097152

RECURSIVE Pow2(_)
Pow2(k) == IF k = 0 THEN 1 ELSE 2 * Pow2(k - 1)

\* the number of bits of a limb
RECURSIVE BitLength(_)
BitLength(x) == IF x = 0 THEN 0 ELSE 1 + BitLength(x \div 2)

\* float(k) for a small integer k: k * 2^59 = (k * 2^17) * 2^42
FloatOfInt(k) ==
  <<0, 0, (k * 131072) % LIMB_BASE, (k * 131072) \div LIMB_BASE>>

\* the exact sum of two numbers
ExactAdd(x, y) ==
  LET s1 == x[1] + y[1]
      s2 == x[2] + y[2] + s1 \div LIMB_BASE
      s3 == x[3] + y[3] + s2 \div LIMB_BASE
      s4 == x[4] + y[4] + s3 \div LIMB_BASE
  IN <<s1 % LIMB_BASE, s2 % LIMB_BASE, s3 % LIMB_BASE, s4>>

\* the position of the highest set bit, -1 for zero
TopBit(x) ==
  IF x[4] > 0 THEN 62 + BitLength(x[4])
  ELSE IF x[3] > 0 THEN 41 + BitLength(x[3])
  ELSE IF x[2] > 0 THEN 20 + BitLength(x[2])
  ELSE BitLength(x[1]) - 1

\* The double nearest to x + num/den units (0 <= num < den), ties to even:
\* 53 bits are kept from the highest set bit on.
RoundToDouble(x, num, den) ==
  LET p == Max(TopBit(x) - 52, 0)
      q == Pow2(p)
      r == x[1] % q
      kept == [x EXCEPT ![1] = x[1] - r]
      twice == 2 * (r * den + num)
      whole == q * den
      up == \/ twice > whole
            \/ twice = whole /\ (x[1] \div q) % 2 = 1
  IN IF up THEN ExactAdd(kept, <<q, 0, 0, 0>>) ELSE kept

\* x + y
FloatAdd(x, y) == RoundToDouble(ExactAdd(x, y), 0, 1)

\* x / n for an integer n: long division, then one rounding
FloatDivInt(x, n) ==
  LET d4 == x[4]
      d3 == (d4 % n) * LIMB_BASE + x[3]
      d2 == (d3 % n) * LIMB_BASE + x[2]
      d1 == (d2 % n) * LIMB_BASE + x[1]
  IN RoundToDouble(<<d1 \div n, d2 \div n, d3 \div n, d4 \div n>>, d1 % n, n)

\* x >= y
FloatGE(x, y) ==
  IF x[4] # y[4] THEN x[4] > y[4]
  ELSE IF x[3] # y[3] THEN x[3] > y[3]
  ELSE IF x[2] # y[2] THEN x[2] > y[2]
  ELSE x[1] >= y[1]

\* the float a decimal literal with two places denotes: the double nearest
\* to hundredths / 100
Literal(hundredths) == FloatDivInt(FloatOfInt(hundredths), 100)

------------------------------------------------------------------------------
(* get_phase_rating and the two reports                                     *)

\* classification_values, in hundredths
ValueHundredths(c) ==
  IF c = "blunder" THEN 0
  ELSE IF c = "mistake" THEN 20
  ELSE IF c = "miss" THEN 30
  ELSE IF c = "inaccuracy" THEN 40
  ELSE IF c = "good" THEN 65
  ELSE IF c = "excellent" THEN 90
  ELSE 100

classification_values(c) == Literal(ValueHundredths(c))

rating_order ==
  << <<"brilliant", 95>>, <<"great", 85>>, <<"best", 75>>,
     <<"excellent", 65>>, <<"good", 50>>, <<"inaccuracy", 35>>,
     <<"miss", 25>>, <<"mistake", 15>> >>

\* the entries of classification_values written as ints: 0 and 1
IsIntValue(c) == ValueHundredths(c) \in {0, 100}
IntValue(c) == ValueHundredths(c) \div 100

\* What sum() returns depends on the interpreter.  Up to CPython 3.11 it
\* adds from left to right and rounds after every addition ("sequential").
\* From CPython 3.12 on it adds the leading ints exactly, adds the first
\* float to that int total by a plain +, and from then on adds every
\* further float by Neumaier's compensated step, collecting the rounding
\* errors in c, while every further int is added by a plain +; c is added
\* once at the end ("compensated").
FloatSums == {"sequential", "compensated"}

RECURSIVE SequentialSum(_, _)
SequentialSum(total, classified_moves) ==
  IF classified_moves = <<>> THEN total
  ELSE SequentialSum(FloatAdd(total, classification_values(Head(classified_moves))),
                     Tail(classified_moves))

\* x - RoundToDouble(x, 0, 1), in units: what the rounding of x drops
RoundingError(x) ==
  LET p == Max(TopBit(x) - 52, 0)
      q == Pow2(p)
      r == x[1] % q
      up == \/ 2 * r > q
            \/ 2 * r = q /\ (x[1] \div q) % 2 = 1
  IN IF up THEN r - q ELSE r

\* x + c for a small signed number c of units, exactly
AddUnits(x, c) ==
  LET s1 == x[1] + c
      s2 == x[2] + s1 \div LIMB_BASE
      s3 == x[3] + s2 \div LIMB_BASE
      s4 == x[4] + s3 \div LIMB_BASE
  IN <<s1 % LIMB_BASE, s2 % LIMB_BASE, s3 % LIMB_BASE, s4>>

\* the float loop of sum(): t = f_result + x, c += (f_result - t) + x or
\* (x - t) + f_result, either of which is the exact error of t; an int
\* item is added by f_result += (double)value; at the end f_result += c
RECURSIVE CompensatedLoop(_, _, _)
CompensatedLoop(f_result, c, classified_moves) ==
  IF classified_moves = <<>>
  THEN IF c # 0 THEN RoundToDouble(AddUnits(f_result, c), 0, 1) ELSE f_result
  ELSE LET m == Head(classified_moves)
       IN IF IsIntValue(m)
          THEN CompensatedLoop(FloatAdd(f_result, FloatOfInt(IntValue(m))),
                               c, Tail(classified_moves))
          ELSE LET t == ExactAdd(f_result, classification_values(m))
               IN CompensatedLoop(RoundToDouble(t, 0, 1),
                                  c + RoundingError(t),
                                  Tail(classified_moves))

\* the int loop of sum(): ints are added exactly until the first float,
\* which is added to the int total by int + float
RECURSIVE CompensatedSum(_, _)
CompensatedSum(i_result, classified_moves) ==
  IF classified_moves = <<>> THEN FloatOfInt(i_result)
  ELSE LET m == Head(classified_moves)
       IN IF IsIntValue(m)
          THEN CompensatedSum(i_result + IntValue(m), Tail(classified_moves))
          ELSE CompensatedLoop(
                 FloatAdd(FloatOfInt(i_result), classification_values(m)),
                 0, Tail(classified_moves))

\* sum(classification_values[m] for m in classified_moves)
SumValues(classified_moves, float_sum) ==
  IF float_sum = "sequential"
  THEN SequentialSum(FloatOfInt(0), classified_moves)
  ELSE CompensatedSum(0, classified_moves)

\* next((c for c, t in rating_order if average >= t), BLUNDER)
RECURSIVE RatingFrom(_, _)
RatingFrom(order, average) ==
  IF order = <<>> THEN "blunder"
  ELSE IF FloatGE(average, Literal(Head(order)[2])) THEN Head(order)[1]
  ELSE RatingFrom(Tail(order), average)

get_phase_rating(classified_moves, float_sum) ==
  IF classified_moves = <<>> THEN "good"
  ELSE LET total == SumValues(classified_moves, float_sum)
           average == FloatDivInt(total, Len(classified_moves))
       IN RatingFrom(rating_order, average)

\* PhaseReport without the test for moves: an entry for every phase
MutPhaseReportEveryPhase(pd, float_sum) ==
  [phase \in Range(GamePhase) |->
     [rating |-> get_phase_rating(pd[phase], float_sum),
      move_count |-> Len(pd[phase])]]

\* "Phase analysis": one entry per phase with moves
PhaseReport(pd, float_sum) ==
  [phase \in {ph \in Range(GamePhase) : pd[ph] # <<>>} |->
     [rating |-> get_phase_rating(pd[phase], float_sum),
      move_count |-> Len(pd[phase])]]

CountIn(seq, c) == Cardinality({i \in DOMAIN seq : seq[i] = c})

\* counts = {c.value: 0 for c in Classification}, then one increment per
\* classification of the colour in every phase
PlayerCounts(cl, color) ==
  [c \in Range(Classification) |->
     CountIn(cl[color]["opening"], c) + CountIn(cl[color]["middlegame"], c)
       + CountIn(cl[color]["endgame"], c)]

\* result["player_summaries"][player] = counts
SummaryPut(summaries, player, counts) ==
  [k \in (DOMAIN summaries) \cup {player} |->
     IF k = player THEN counts ELSE summaries[k]]

\* "Player summaries": White's entry is written first, then Black's
PlayerReport(cl, nm) ==
  SummaryPut(SummaryPut([k \in {} |-> 0], nm[1], PlayerCounts(cl, "white")),
             nm[2], PlayerCounts(cl, "black"))

------------------------------------------------------------------------------
(* Inputs                                                                   *)

\* the most move tokens one game has
MaxTokens == 3

\* the book file's rows
BookSources ==
  { << <<San(1), San(2)>> >>,
    << <<NumToken, San(1), San(3), San(3), San(2)>>,
       <<San(2), BadToken, San(1)>> >> }

\* the boards a PGN game starts from (the standard one, or one its FEN
\* header sets up)
PgnStartBoards == {StartBoard, MakeBoard(0, "w", MAX_DEPTH)}

\* the player names the game's headers give
NamePairs == {<<"Ann", "Bob">>, <<"Ann", "Ann">>}

Info(score, pv) == [score |-> score, pv |-> pv]

\* engine replies during a whole game: the score before the move, relative
\* to the mover, and after it, relative to the opponent
GameReplies == {<<Cp(0), Cp(0)>>, <<Cp(0), Cp(-300)>>, <<Cp(600), Cp(-300)>>}

\* the tokens of a JSON game's move lines, move numbers removed
JsonTokens == {San(m) : m \in Moves} \cup {BadToken}

\* the engine's principal move before move m is played: none, or m itself
GameBestMoves(m) == {NoMove, m}

------------------------------------------------------------------------------
(* The analysis of one game                                                 *)

EmptyPhases == [ph \in Range(GamePhase) |-> <<>>]

\* the state when the loop is entered
InitState(md, b, book, flag, l, p) ==
  /\ mode = md
  /\ names = <<"", "">>
  /\ opening_book = book
  /\ board = b
  /\ in_opening = flag
  /\ move_number = 1
  /\ move_analysis = <<>>
  /\ classifications = [color \in {"white", "black"} |-> EmptyPhases]
  /\ phase_data = EmptyPhases
  /\ phase_analysis = [ph \in {} |-> 0]
  /\ player_summaries = [k \in {} |-> 0]
  /\ locals = l
  /\ pc = p

InitGame(md, b, rows) ==
  InitState(md, b, load_opening_book(rows), TRUE, NoLocals, "loop")

Init ==
  \E rows \in BookSources :
    \/ InitGame("json", StartBoard, rows)
    \/ \E b \in PgnStartBoards : InitGame("pgn", b, rows)

\* "Track classifications" and "Add move analysis to result" for the move
\* whose local variables are l
Track(l) ==
  /\ classifications' =
       [classifications EXCEPT ![l.player][l.current_phase] =
          Append(@, l.classification)]
  /\ phase_data' =
       [phase_data EXCEPT ![l.current_phase] = Append(@, l.classification)]
  /\ move_analysis' =
       Append(move_analysis,
              [move_number |-> move_number,
               player |-> IF l.player = "white" THEN "White" ELSE "Black",
               move |-> l.token,
               evaluation |-> l.post_eval,
               evaluation_loss |-> l.eval_loss,
               classification |-> l.classification])

\* one run of the PGN loop body: the mainline's next move, always legal
PgnMove(move, pre_info, post_info) ==
  /\ pc = "loop"
  /\ mode = "pgn"
  /\ IsLegal(board, move)
  /\ LET b2 == Push(board, move)
         l == LoopBody("pgn", Uci(move), move, board.turn, b2, in_opening,
                       opening_book, pre_info, post_info)
     IN /\ board' = b2
        /\ in_opening' = NextInOpening(in_opening, l.book_move)
        /\ locals' = l
        /\ Track(l)
        \* enumerate(..., start=1)
        /\ move_number' = move_number + 1
  /\ UNCHANGED <<mode, names, opening_book, phase_analysis, player_summaries,
                 pc>>

\* InvalidMove that also leaves the opening
MutInvalidMoveLeavesOpening(token, pre_info) ==
  /\ move_analysis' =
       Append(move_analysis,
              [move_number |-> move_number, player |-> "unknown",
               move |-> token, error |-> "Invalid move"])
  /\ locals' = [locals EXCEPT
                  !.stage = "error", !.token = token,
                  !.pre_score = pre_info.score,
                  !.best_move = pre_info.pv,
                  !.pre_eval = WhiteEval(pre_info.score, board.turn)]
  /\ in_opening' = FALSE
  /\ UNCHANGED <<board, move_number, classifications, phase_data>>

\* except ValueError: the position was analysed, push_san raised without
\* touching the board; an error record is appended and the loop continues
InvalidMove(token, pre_info) ==
  /\ move_analysis' =
       Append(move_analysis,
              [move_number |-> move_number, player |-> "unknown",
               move |-> token, error |-> "Invalid move"])
  /\ locals' = [locals EXCEPT
                  !.stage = "error", !.token = token,
                  !.pre_score = pre_info.score,
                  !.best_move = pre_info.pv,
                  !.pre_eval = WhiteEval(pre_info.score, board.turn)]
  /\ UNCHANGED <<board, in_opening, move_number, classifications,
                 phase_data>>

\* one run of the JSON loop body
JsonToken(token, pre_info, post_info) ==
  /\ pc = "loop"
  /\ mode = "json"
  /\ IF ParseSan(board, token) = NoMove
     THEN InvalidMove(token, pre_info)
     ELSE LET move == ParseSan(board, token)
              b2 == Push(board, move)
              l == LoopBody("json", token, move, board.turn, b2, in_opening,
                            opening_book, pre_info, post_info)
          IN /\ board' = b2
             /\ in_opening' = NextInOpening(in_opening, l.book_move)
             /\ locals' = l
             /\ Track(l)
             /\ move_number' = move_number + 1
  /\ UNCHANGED <<mode, names, opening_book, phase_analysis, player_summaries,
                 pc>>

\* the two reports after the loop
Finish(nm, float_sum) ==
  /\ pc = "loop"
  /\ names' = nm
  /\ phase_analysis' = PhaseReport(phase_data, float_sum)
  /\ player_summaries' = PlayerReport(classifications, nm)
  /\ pc' = "done"
  /\ UNCHANGED <<mode, opening_book, board, in_opening, move_number,
                 move_analysis, classifications, phase_data, locals>>

Next ==
  \/ \E m \in Moves, r \in GameReplies : \E best \in GameBestMoves(m) :
       /\ Len(move_analysis) < MaxTokens
       /\ PgnMove(m, Info(r[1], best), Info(r[2], NoMove))
  \/ \E t \in JsonTokens, r \in GameReplies : \E best \in GameBestMoves(t.mv) :
       /\ Len(move_analysis) < MaxTokens
       /\ JsonToken(t, Info(r[1], best), Info(r[2], NoMove))
  \/ \E nm \in NamePairs, float_sum \in FloatSums : Finish(nm, float_sum)

Spec == Init /\ [][Next]_vars

------------------------------------------------------------------------------
(* One run of the loop body on the first move of a game, over a wide range  *)
(* of engine replies                                                        *)

PreCentipawns == {-10100, -2000, -500, -499, 0, 499, 500, 2000, 10100}
PreMates == {-5, 1, 3, 4}
PreScores == {Cp(v) : v \in PreCentipawns} \cup {Mate(v) : v \in PreMates}

PostMagnitudes ==
  {0, 27, 28, 60, 61, 108, 109, 166, 167, 199, 200, 201, 225, 226, 300, 1700}
PostMates == {-3, -1, 0, 4}
PostScores ==
  {Cp(v) : v \in PostMagnitudes} \cup {Cp(-v) : v \in PostMagnitudes}
    \cup {Mate(v) : v \in PostMates}

BestMoves == Moves \cup {NoMove}

MoveTokens == {San(m) : m \in Moves} \cup {Uci(m) : m \in Moves} \cup {BadToken}

MoveBook == << <<San(1), San(2)>> >>

InitMove ==
  \/ InitGame("json", StartBoard, MoveBook)
  \/ \E turn \in {"w", "b"} : InitGame("pgn", MakeBoard(0, turn, 1), MoveBook)

NextMove ==
  \/ \E m \in Moves, pre \in PreScores, best \in BestMoves, post \in PostScores :
       /\ move_analysis = <<>>
       /\ PgnMove(m, Info(pre, best), Info(post, NoMove))
  \/ \E t \in MoveTokens, pre \in PreScores, best \in BestMoves,
        post \in PostScores :
       /\ move_analysis = <<>>
       /\ JsonToken(t, Info(pre, best), Info(post, NoMove))

SpecMove == InitMove /\ [][NextMove]_vars

------------------------------------------------------------------------------
(* detect_game_phase alone, on boards of many piece counts                  *)

WhiteCounts ==
  {Count(p, n, b, r, q) :
     p \in 0 .. 8, n \in {0, 2}, b \in {0, 2}, r \in {0, 2}, q \in {0, 1}}
BlackCounts ==
  {Count(p, n, b, r, q) :
     p \in {0, 8}, n \in {0, 2}, b \in {0, 2}, r \in {0, 2}, q \in {0, 1}}

InitPhase ==
  \E w \in WhiteCounts, b \in BlackCounts, flag \in BOOLEAN :
    InitState("pgn", [StartBoard EXCEPT !.pieces = [w |-> w, b |-> b]],
              EmptyBook, flag, [NoLocals EXCEPT !.current_phase = "none"],
              "phase")

DetectPhase ==
  /\ pc = "phase"
  /\ locals' = [locals EXCEPT
                  !.current_phase = detect_game_phase(board, in_opening)]
  /\ pc' = "phased"
  /\ UNCHANGED <<mode, names, opening_book, board, in_opening, move_number,
                 move_analysis, classifications, phase_data, phase_analysis,
                 player_summaries>>

SpecPhase == InitPhase /\ [][DetectPhase]_vars

------------------------------------------------------------------------------
(* get_phase_rating on its own: the list is drawn from every list of at     *)
(* most MaxRated classifications, the interpreter's sum() from FloatSums.   *)

MaxRated == 4

RatedLists ==
  UNION {[1 .. n -> Range(Classification)] : n \in 0 .. MaxRated}

InitRating ==
  \E classified_moves \in RatedLists :
    InitState("pgn", StartBoard, EmptyBook, TRUE,
              [stage |-> "rate", classified_moves |-> classified_moves,
               float_sum |-> "none", rating |-> NoClassification],
              "rate")

RatePhase(float_sum) ==
  /\ pc = "rate"
  /\ locals' = [locals EXCEPT
                  !.stage = "rated",
                  !.float_sum = float_sum,
                  !.rating = get_phase_rating(locals.classified_moves,
                                              float_sum)]
  /\ pc' = "rated"
  /\ UNCHANGED <<mode, names, opening_book, board, in_opening, move_number,
                 move_analysis, classifications, phase_data, phase_analysis,
                 player_summaries>>

NextRating == \E float_sum \in FloatSums : RatePhase(float_sum)

SpecRating == InitRating /\ [][NextRating]_vars


------------------------------------------------------------------------------
(* load_opening_book on its own: a source of two lines, each of at most     *)
(* MaxLineTokens tokens.                                                    *)

MaxLineTokens == 3

LineTokens == {San(1), San(2), BadToken, NumToken}

BookLines == UNION {[1 .. n -> LineTokens] : n \in 0 .. MaxLineTokens}

InitLoad ==
  \E first \in BookLines, second \in BookLines :
    InitState("pgn", StartBoard, EmptyBook, TRUE,
              [stage |-> "load", rows |-> <<first, second>>], "load")

LoadBook ==
  /\ pc = "load"
  /\ opening_book' = load_opening_book(locals.rows)
  /\ locals' = [locals EXCEPT !.stage = "loaded"]
  /\ pc' = "loaded"
  /\ UNCHANGED <<mode, names, board, in_opening, move_number, move_analysis,
                 classifications, phase_data, phase_analysis,
                 player_summaries>>

SpecLoad == InitLoad /\ [][LoadBook]_vars

------------------------------------------------------------------------------
(* Properties                                                               *)

Classified == pc = "loop" /\ locals.stage = "classified"

\* C1: a move that is Best after the book, centipawn and missed-win stages,
\* with preEval < -300 and postEval >= 300, ends Brilliant.
C1_BrilliantSupersedesGreat ==
  (/\ Classified
   /\ locals.cls3 = "best"
   /\ locals.pre_eval < -300
   /\ locals.post_eval >= 300)
    => locals.classification = "brilliant"

\* C2: a move the book lookup recognizes ends with the classification Book,
\* whatever the evaluations, the best move and the mate status are.
C2_BookMoveStaysBook ==
  (Classified /\ Truthy(locals.book_move))
    => /\ locals.classification = "book"
       /\ ~locals.miss_override

\* C3: in both pipelines the missed-win check does not fire when the played
\* move is the move the engine reported as best.
C3_NoMissOnBestMove ==
  (Classified /\ locals.move = locals.best_move) => ~locals.miss_override

\* C4: with evaluationLoss < 300 the missed-win check fires only on a forced
\* mate within 3 for the side to move, never on a mate against the mover.
C4_ForcedMateForMoverOnly ==
  (Classified /\ locals.eval_loss < 300 /\ locals.miss_override)
    => /\ locals.pre_score.kind = "mate"
       /\ locals.pre_score.v > 0
       /\ locals.pre_score.v <= 3

\* C5: for a non-book move with |preEval| >= 500 and a played move other
\* than the best move, evaluationLoss >= 300 ends Miss, also after a Best of
\* the centipawn stage; with evaluationLoss = 299 and no mate score before
\* the move, and with |preEval| = 499, the missed-win check does not fire.
C5_MissedWinBoundary ==
  Classified =>
    /\ (/\ ~Truthy(locals.book_move)
        /\ Abs(locals.pre_eval) >= 500
        /\ locals.move # locals.best_move
        /\ locals.eval_loss >= 300)
         => (locals.miss_override /\ locals.classification = "miss")
    /\ (/\ ~Truthy(locals.book_move)
        /\ locals.eval_loss = 299
        /\ locals.pre_score.kind = "cp")
         => (~locals.miss_override /\ locals.cls3 = locals.cls2)
    /\ Abs(locals.pre_eval) = 499
         => (~locals.miss_override /\ locals.cls3 = locals.cls2)

\* C5 witness: a Best of the centipawn stage at a loss of exactly 300 ends
\* Miss.
C5_Witness ==
  /\ Classified
  /\ ~Truthy(locals.book_move)
  /\ locals.cls2 = "best"
  /\ locals.eval_loss = 300
  /\ locals.move # locals.best_move
  /\ locals.classification = "miss"

CandidateOrder ==
  <<"best", "excellent", "good", "inaccuracy", "miss", "mistake">>

\* candidate i holds the loss: max(a*x^2 + b*x + c, 0) >= loss
Qualifies(i, x, loss) ==
  loss * THRESHOLD_SCALE
    <= get_evaluation_loss_threshold(CandidateOrder[i], x).v

\* C7: for a non-book move the centipawn stage gives the first candidate of
\* Best, Excellent, Good, Inaccuracy, Miss, Mistake whose threshold at
\* |preEval| is >= evaluationLoss = |preEval - postEval|, and Blunder exactly
\* when there is none; never Great, Brilliant, Book, Forced or nothing.
C7_FirstQualifyingCandidate ==
  (Classified /\ ~Truthy(locals.book_move)) =>
    LET x == Abs(locals.pre_eval)
        loss == locals.eval_loss
        fits == {i \in DOMAIN CandidateOrder : Qualifies(i, x, loss)}
    IN /\ loss = Abs(locals.pre_eval - locals.post_eval)
       /\ locals.cls2 \in Range(CandidateOrder) \cup {"blunder"}
       /\ (locals.cls2 = "blunder") <=> (fits = {})
       /\ fits # {} =>
            \E i \in fits : /\ \A j \in fits : i <= j
                            /\ locals.cls2 = CandidateOrder[i]

\* C7 witness: a loss equal to the threshold of Best (both 0) gives Best.
C7_Witness ==
  /\ Classified
  /\ ~Truthy(locals.book_move)
  /\ locals.eval_loss = 0
  /\ get_evaluation_loss_threshold("best", locals.pre_eval).v = 0
  /\ locals.cls2 = "best"

\* C8: once a move is attributed a phase other than Opening, no later move
\* is attributed Opening; in_opening, once false, stays false.
C8_PhaseMonotonic ==
  [][/\ ~in_opening => ~in_opening'
     /\ (phase_data["middlegame"] # <<>> \/ phase_data["endgame"] # <<>>)
          => phase_data'["opening"] = phase_data["opening"]]_vars

\* C8 witness: a move that matches the book after the opening has ended.
C8_Witness ==
  /\ Classified
  /\ ~in_opening
  /\ Truthy(locals.book_move)
  /\ locals.current_phase # "opening"
  /\ Len(move_analysis) >= 3

\* C9: a position whose fullmove number exceeds 8 has no book move, also
\* when its fingerprint is in the book, and the move leading to it is not
\* classified Book.
C9_BookDepthCutoff ==
  (Classified /\ board.fullmove > 8) =>
    /\ ~Truthy(locals.book_move)
    /\ locals.classification # "book"
    /\ move_analysis[Len(move_analysis)].classification # "book"

C9_Witness ==
  /\ Classified
  /\ board.fullmove > 8
  /\ Fingerprint(board) \in DOMAIN opening_book

Phased == pc = "phased"

TotalMaterial(b) ==
  LET side(c) == b.pieces[c].pawn + 3 * b.pieces[c].knight
                   + 3 * b.pieces[c].bishop + 5 * b.pieces[c].rook
                   + 9 * b.pieces[c].queen
  IN side("w") + side("b")

Queens(b) == b.pieces["w"].queen + b.pieces["b"].queen

\* C10: detect_game_phase gives Opening whenever the flag is set; otherwise
\* Endgame exactly when total <= 24 or (queens = 0 and total <= 48), and
\* Middlegame in every other case.
C10_PhaseDetector ==
  Phased =>
    LET total == TotalMaterial(board)
        queens == Queens(board)
        endgame == total <= 24 \/ (queens = 0 /\ total <= 48)
    IN /\ in_opening => locals.current_phase = "opening"
       /\ (~in_opening /\ endgame) => locals.current_phase = "endgame"
       /\ (~in_opening /\ ~endgame) => locals.current_phase = "middlegame"

\* C10 witness: 25 with a queen on the board is Middlegame.
C10_Witness ==
  /\ Phased
  /\ ~in_opening
  /\ TotalMaterial(board) = 25
  /\ Queens(board) > 0
  /\ locals.current_phase = "middlegame"

------------------------------------------------------------------------------
Rated == pc = "rated"

RECURSIVE SumHundredths(_)
SumHundredths(cm) ==
  IF cm = <<>> THEN 0 ELSE ValueHundredths(Head(cm)) + SumHundredths(Tail(cm))

\* the first entry of the table whose threshold the average total / n meets,
\* in exact arithmetic
TableRating(total, n) ==
  LET hits == {i \in DOMAIN rating_order : total >= rating_order[i][2] * n}
  IN IF hits = {} THEN "blunder"
     ELSE rating_order[CHOOSE i \in hits : \A j \in hits : i <= j][1]

\* C11: for a non-empty list get_phase_rating returns the first entry of the
\* ordered table whose threshold the average of the quality scores meets or
\* exceeds (equality counts), Blunder below 0.15, and Good for the empty
\* list; the result is never Book or Forced.
C11_PhaseRating ==
  Rated =>
    LET cm == locals.classified_moves
    IN /\ locals.rating \notin {"book", "forced"}
       /\ cm = <<>> => locals.rating = "good"
       /\ cm # <<>> =>
            locals.rating = TableRating(SumHundredths(cm), Len(cm))

------------------------------------------------------------------------------
Done == pc = "done"

IsClassifiedRecord(rec) == "classification" \in DOMAIN rec

ClassifiedRecords ==
  {i \in DOMAIN move_analysis : IsClassifiedRecord(move_analysis[i])}

\* the classified move records of one player with one final classification
RecordCount(player, c) ==
  Cardinality({i \in ClassifiedRecords :
                 /\ move_analysis[i].player = player
                 /\ move_analysis[i].classification = c})

RECURSIVE SumCounts(_, _)
SumCounts(counts, keys) ==
  IF keys = {} THEN 0
  ELSE LET k == CHOOSE x \in keys : TRUE
       IN counts[k] + SumCounts(counts, keys \ {k})

RECURSIVE SumSummaries(_, _)
SumSummaries(summaries, keys) ==
  IF keys = {} THEN 0
  ELSE LET k == CHOOSE x \in keys : TRUE
       IN SumCounts(summaries[k], DOMAIN summaries[k])
            + SumSummaries(summaries, keys \ {k})

\* C12: after the analysis the output holds for each of the two players,
\* keyed by player name, a summary with every one of the 11 classification
\* keys whose count for each classification is the number of classified
\* moves that player made with it; the counts summed over the summaries
\* equal the number of classified move records.
C12_PlayerSummaries ==
  Done =>
    /\ \A i \in 1 .. 2 :
         /\ names[i] \in DOMAIN player_summaries
         /\ DOMAIN player_summaries[names[i]] = Range(Classification)
         /\ \A c \in Range(Classification) :
              player_summaries[names[i]][c] =
                RecordCount(IF i = 1 THEN "White" ELSE "Black", c)
    /\ SumSummaries(player_summaries, DOMAIN player_summaries)
         = Cardinality(ClassifiedRecords)

------------------------------------------------------------------------------
IsErrorRecord(rec) == "error" \in DOMAIN rec

\* C13: in the JSON pipeline a token that cannot be applied to the current
\* board appends exactly one record with an error field and player
\* "unknown" and no classification; the board, the in_opening flag and all
\* per-phase and per-player accumulators stay as they are, and the loop goes
\* on with the next token against the unchanged board.
C13_IllegalTokenSkipped ==
  [][(/\ mode = "json"
      /\ pc = "loop"
      /\ Len(move_analysis') = Len(move_analysis) + 1
      /\ ParseSan(board, move_analysis'[Len(move_analysis')].move) = NoMove)
     => LET rec == move_analysis'[Len(move_analysis')]
        IN /\ SubSeq(move_analysis', 1, Len(move_analysis)) = move_analysis
           /\ IsErrorRecord(rec)
           /\ rec.player = "unknown"
           /\ ~IsClassifiedRecord(rec)
           /\ board' = board
           /\ in_opening' = in_opening
           /\ classifications' = classifications
           /\ phase_data' = phase_data
           /\ pc' = "loop"]_vars

\* C13 witness: an error record is followed by the record of a move that was
\* applied to the starting board and classified.
C13_Witness ==
  /\ mode = "json"
  /\ Len(move_analysis) >= 2
  /\ IsErrorRecord(move_analysis[1])
  /\ move_analysis[1].player = "unknown"
  /\ IsClassifiedRecord(move_analysis[2])
  /\ move_analysis[2].player = "White"
  /\ board = Push(StartBoard, move_analysis[2].move.mv)

------------------------------------------------------------------------------
Loaded == pc = "loaded"

\* the entries a line records up to its first token that cannot be applied,
\* as pairs of fingerprint and move text
RECURSIVE LineEntries(_, _)
LineEntries(b, tokens) ==
  IF tokens = <<>> THEN {}
  ELSE IF Head(tokens).nota = "num" THEN LineEntries(b, Tail(tokens))
  ELSE IF ParseSan(b, Head(tokens)) = NoMove THEN {}
  ELSE LET m == ParseSan(b, Head(tokens))
       IN {<<Fingerprint(Push(b, m)), Uci(m)>>}
            \cup LineEntries(Push(b, m), Tail(tokens))

\* C14: the first token of a line that cannot be applied stops the replay of
\* that line only: the entries of the line's earlier moves stay in the book,
\* nothing after the token is recorded from that line, every later line is
\* replayed from a fresh starting board, and the load returns a book.
C14_LoadIsolation ==
  Loaded =>
    LET entries == UNION {LineEntries(StartBoard, locals.rows[i]) :
                            i \in DOMAIN locals.rows}
    IN /\ DOMAIN opening_book = {e[1] : e \in entries}
       /\ \A k \in DOMAIN opening_book : <<k, opening_book[k]>> \in entries

\* C14 witness: the first line breaks after one applied move with a token
\* left over that the board would accept; the book holds that first move and
\* the entry of the second line, and not the position after the left-over
\* token.
C14_Witness ==
  /\ Loaded
  /\ locals.rows = << <<San(1), BadToken, San(2)>>, <<NumToken, San(2)>> >>
  /\ DOMAIN opening_book =
       {Fingerprint(Push(StartBoard, 1)), Fingerprint(Push(StartBoard, 2))}
  /\ Fingerprint(Push(Push(StartBoard, 1), 2)) \notin DOMAIN opening_book

------------------------------------------------------------------------------
\* the classified moves attributed to a phase, both players together
Attributed(ph) ==
  Len(classifications["white"][ph]) + Len(classifications["black"][ph])

RECURSIVE SumMoveCounts(_, _)
SumMoveCounts(analysis, phases) ==
  IF phases = {} THEN 0
  ELSE LET ph == CHOOSE x \in phases : TRUE
       IN analysis[ph].move_count + SumMoveCounts(analysis, phases \ {ph})

\* C15: phase_analysis has an entry for a phase exactly when a classified
\* move of the game was attributed to that phase; the entry's move count is
\* positive and is the number of classified moves attributed to the phase,
\* and the move counts of all entries add up to the number of classified
\* move records.
C15_PhaseAnalysisComplete ==
  Done =>
    /\ \A ph \in Range(GamePhase) :
         ph \in DOMAIN phase_analysis <=> Attributed(ph) > 0
    /\ \A ph \in DOMAIN phase_analysis :
         /\ phase_analysis[ph].move_count > 0
         /\ phase_analysis[ph].move_count = Attributed(ph)
         /\ phase_analysis[ph].move_count = Len(phase_data[ph])
    /\ SumMoveCounts(phase_analysis, DOMAIN phase_analysis)
         = Cardinality(ClassifiedRecords)

\* C15 witness: a finished game with an error record, one move in the
\* opening, one in the middlegame and none in the endgame.
C15_Witness ==
  /\ Done
  /\ DOMAIN phase_analysis = {"opening", "middlegame"}
  /\ phase_analysis["opening"].move_count = 1
  /\ phase_analysis["middlegame"].move_count = 1
  /\ \E i \in DOMAIN move_analysis : IsErrorRecord(move_analysis[i])

------------------------------------------------------------------------------
\* the phase the material of a board gives
MaterialPhase(b) ==
  IF TotalMaterial(b) <= 24 \/ (Queens(b) = 0 /\ TotalMaterial(b) <= 48)
  THEN "endgame" ELSE "middlegame"

\* a step that classifies a move
ClassifiesMove ==
  /\ pc = "loop"
  /\ Len(move_analysis') = Len(move_analysis) + 1
  /\ IsClassifiedRecord(move_analysis'[Len(move_analysis')])

\* C16: the phase of a move is computed before the in_opening flag is
\* cleared.  The flag is set when the game starts and stays set exactly as
\* long as every classified move so far passed the book lookup; a classified
\* move is attributed to Opening exactly when the flag was still set before
\* it, so the first move of a game and the first move that fails the lookup
\* count as Opening, and the moves after that failure are attributed
\* Middlegame or Endgame by material.
C16_PhaseBeforeFlag ==
  /\ [](/\ (pc = "loop" /\ ClassifiedRecords = {}) => in_opening
        /\ ClassifiedRecords # {} => phase_data["opening"] # <<>>
        /\ in_opening =>
             Len(phase_data["opening"]) = Cardinality(ClassifiedRecords))
  /\ [][ClassifiesMove =>
          LET phase == locals'.current_phase
              rec == move_analysis'[Len(move_analysis')]
          IN /\ phase = "opening" <=> in_opening
             /\ ~in_opening => phase = MaterialPhase(board')
             /\ in_opening' <=> (in_opening /\ Truthy(locals'.book_move))
             /\ phase_data' =
                  [phase_data EXCEPT
                     ![phase] = Append(@, rec.classification)]]_vars

\* C16 witness: the first move passed the book lookup, the second failed it
\* and is still in the Opening, the third is attributed by material.
C16_Witness ==
  /\ pc = "loop"
  /\ Len(move_analysis) = 3
  /\ ClassifiedRecords = {1, 2, 3}
  /\ move_analysis[1].classification = "book"
  /\ move_analysis[2].classification # "book"
  /\ Len(phase_data["opening"]) = 2
  /\ ~in_opening
  /\ locals.current_phase = MaterialPhase(board)
  /\ Len(phase_data[locals.current_phase]) = 1

------------------------------------------------------------------------------
\* C17: move_analysis is append-only and receives exactly one record per
\* processed move token, in game order, and the move numbers of its records
\* are strictly increasing: no two records of a game, error records
\* included, carry the same move number.
C17_MoveRecordSequence ==
  /\ [](\A i, j \in DOMAIN move_analysis :
          i < j => move_analysis[i].move_number < move_analysis[j].move_number)
  /\ [][pc = "loop" /\ pc' = "loop" =>
          /\ Len(move_analysis') = Len(move_analysis) + 1
          /\ SubSeq(move_analysis', 1, Len(move_analysis)) = move_analysis
          /\ move_analysis'[Len(move_analysis')].move = locals'.token]_vars

====
